---- MODULE Spec2Model ----
(***************************************************************************)
(* Conversation rendering of jujuchat/tokenizer.py (RustBPETokenizer):     *)
(* render_conversation and render_for_completion, as a state machine whose *)
(* steps are the add_tokens calls and the checks between them.             *)
(***************************************************************************)
EXTENDS Integers, Sequences, FiniteSets, TLC

VARIABLES
    op,            \* the public method the caller invoked
    heap,          \* conversation objects: the caller's and the deep copies
    conversation,  \* the object the running frame's name `conversation` is bound to
    messages,      \* render_conversation's local list `messages`
    max_tokens,    \* render_conversation's parameter
    pc,            \* position in the code
    i,             \* enumerate index of the message loop (0-based, as in the code)
    j,             \* index of the part loop (1-based position in content)
    pending,       \* add_tokens calls of the current straight-line block, not yet run
    ids,           \* local list `ids`
    mask,          \* local list `mask`
    status,        \* "running", "returned" or "raised"
    error,         \* the exception type when raised
    ret,           \* the value handed back to the caller
    encs,          \* the tokenizer instances of the process, in order of construction
    self,          \* the instance the running method was called on
    cache,         \* encode_special's lru_cache, least recently used entry first
    frame          \* encode's arguments and its locals prepend_id, append_id

vars == <<op, heap, conversation, messages, max_tokens, pc, i, j, pending,
          ids, mask, status, error, ret, encs, self, cache, frame>>

-----------------------------------------------------------------------------
(* Bounds of the model *)

MaxMsgs == 3
MaxParts == 3
MaxLimit == 7
MaxTokenizers == 4

-----------------------------------------------------------------------------
(* Vocabulary and reserved tokens *)

SPECIAL_TOKENS ==
    << "<|bos|>", "<|user_start|>", "<|user_end|>", "<|assistant_start|>",
       "<|assistant_end|>", "<|python_start|>", "<|python_end|>",
       "<|output_start|>", "<|output_end|>" >>

\* The trained merge table: token bytes in rank order (rank = position - 1).
\* A text is a sequence of characters; "nl" is the newline character.
mergeable_ranks == << <<"a">>, <<"nl">>, <<"nl", "nl">> >>

tokens_offset == Len(mergeable_ranks)

IndexOf(seq, x) == CHOOSE k \in 1..Len(seq) : seq[k] = x

\* special_tokens = {name: tokens_offset + i for i, name in enumerate(SPECIAL_TOKENS)}
encode_special(name) == tokens_offset + (IndexOf(SPECIAL_TOKENS, name) - 1)

get_bos_token_id == encode_special("<|bos|>")

IsSpecial(tok) == tok >= tokens_offset

Rank(bytes) == IndexOf(mergeable_ranks, bytes) - 1

\* enc.encode_ordinary: the two-newline merge is applied left to right, every
\* other character is its own token.  Never yields a reserved id, and does not
\* distribute over concatenation.
RECURSIVE encode_ordinary(_)
encode_ordinary(text) ==
    IF text = <<>> THEN <<>>
    ELSE IF Len(text) >= 2 /\ SubSeq(text, 1, 2) = <<"nl", "nl">>
         THEN <<Rank(<<"nl", "nl">>)>> \o encode_ordinary(SubSeq(text, 3, Len(text)))
         ELSE <<Rank(<<text[1]>>)>> \o encode_ordinary(Tail(text))

\* encode(text) with neither prepend nor append, as render_conversation calls it
encode(text) == encode_ordinary(text)

-----------------------------------------------------------------------------
(* Conversations *)

Str(t) == [kind |-> "str", text |-> t, parts |-> <<>>]
List(ps) == [kind |-> "list", text |-> <<>>, parts |-> ps]
NoneContent == [kind |-> "none", text |-> <<>>, parts |-> <<>>]
Msg(r, c) == [role |-> r, content |-> c]
Part(t, x) == [type |-> t, text |-> x]

SeqsUpTo(S, n) == UNION {[1..k -> S] : k \in 0..n}

DefaultMaxTokens == 2048

Min(a, b) == IF a < b THEN a ELSE b
Max(a, b) == IF a > b THEN a ELSE b

\* Python's seq[:n], n any integer
PySliceTo(seq, n) ==
    IF n >= 0 THEN SubSeq(seq, 1, Min(n, Len(seq)))
    ELSE SubSeq(seq, 1, Max(0, Len(seq) + n))

-----------------------------------------------------------------------------
(* Outcomes of a block of code: it raises, or it leaves add_tokens calls *)

Raise(e) == [raise |-> TRUE, error |-> e, calls |-> <<>>]
Calls(cs) == [raise |-> FALSE, error |-> "", calls |-> cs]
Call(token_ids, mask_val) == [token_ids |-> token_ids, mask_val |-> mask_val]

\* add_tokens turns a single token id into a one-element list
One(tok) == <<tok>>

Repeat(x, n) == [k \in 1..n |-> x]

\* add_tokens with mask.append(mask_val) in place of the extend
add_tokens_append_mask(buf, token_ids, mask_val) ==
    [ids |-> buf.ids \o token_ids, mask |-> Append(buf.mask, mask_val)]

\* add_tokens(token_ids, mask_val) on the buffers buf = [ids, mask]
add_tokens(buf, token_ids, mask_val) ==
    [ids |-> buf.ids \o token_ids,
     mask |-> buf.mask \o Repeat(mask_val, Len(token_ids))]

\* the BOS token trained on
BosCallsTrained == Calls(<<Call(One(get_bos_token_id), 1)>>)

\* add_tokens(bos, 0)
BosCalls == Calls(<<Call(One(get_bos_token_id), 0)>>)

\* the parity test the wrong way round
must_be_from_swapped(idx) == IF idx % 2 = 0 THEN "assistant" ELSE "user"

\* must_be_from = "user" if i % 2 == 0 else "assistant"
must_be_from(idx) == IF idx % 2 = 0 THEN "user" ELSE "assistant"

\* the user branch of the message loop
UserCalls(content) ==
    IF content.kind # "str" THEN Raise("AssertionError")
    ELSE Calls(<< Call(One(encode_special("<|user_start|>")), 0),
                  Call(encode(content.text), 0),
                  Call(One(encode_special("<|user_end|>")), 0) >>)

\* the start marker trained on
AssistantStartCallsTrained == Calls(<<Call(One(encode_special("<|assistant_start|>")), 1)>>)

\* add_tokens(assistant_start, 0)
AssistantStartCalls == Calls(<<Call(One(encode_special("<|assistant_start|>")), 0)>>)

\* the end marker not trained on
AssistantEndCallsUntrained == Calls(<<Call(One(encode_special("<|assistant_end|>")), 0)>>)

\* add_tokens(assistant_end, 1)
AssistantEndCalls == Calls(<<Call(One(encode_special("<|assistant_end|>")), 1)>>)

\* the string branch of an assistant message
AssistantTextCalls(content) == Calls(<<Call(encode(content.text), 1)>>)

\* the part loop with no final else: an unknown part type adds nothing
PartCallsSkipUnknown(part) ==
    LET value_ids == encode(part.text) IN
    IF part.type = "text" THEN Calls(<<Call(value_ids, 1)>>)
    ELSE IF part.type = "python" THEN
        Calls(<< Call(One(encode_special("<|python_start|>")), 1),
                 Call(value_ids, 1),
                 Call(One(encode_special("<|python_end|>")), 1) >>)
    ELSE IF part.type = "python_output" THEN
        Calls(<< Call(One(encode_special("<|output_start|>")), 0),
                 Call(value_ids, 0),
                 Call(One(encode_special("<|output_end|>")), 0) >>)
    ELSE Calls(<<>>)

\* the part loop with the tool output's text trained on
PartCallsTrainOutput(part) ==
    LET value_ids == encode(part.text) IN
    IF part.type = "text" THEN Calls(<<Call(value_ids, 1)>>)
    ELSE IF part.type = "python" THEN
        Calls(<< Call(One(encode_special("<|python_start|>")), 1),
                 Call(value_ids, 1),
                 Call(One(encode_special("<|python_end|>")), 1) >>)
    ELSE IF part.type = "python_output" THEN
        Calls(<< Call(One(encode_special("<|output_start|>")), 0),
                 Call(value_ids, 1),
                 Call(One(encode_special("<|output_end|>")), 0) >>)
    ELSE Raise("ValueError")

\* one iteration of `for part in content`
PartCalls(part) ==
    LET value_ids == encode(part.text) IN
    IF part.type = "text" THEN Calls(<<Call(value_ids, 1)>>)
    ELSE IF part.type = "python" THEN
        Calls(<< Call(One(encode_special("<|python_start|>")), 1),
                 Call(value_ids, 1),
                 Call(One(encode_special("<|python_end|>")), 1) >>)
    ELSE IF part.type = "python_output" THEN
        Calls(<< Call(One(encode_special("<|output_start|>")), 0),
                 Call(value_ids, 0),
                 Call(One(encode_special("<|output_end|>")), 0) >>)
    ELSE Raise("ValueError")

-----------------------------------------------------------------------------
(* Conversation objects *)

Objects == {"caller", "rfc_copy", "rc_copy"}

Obj(ms) == [alloc |-> TRUE, messages |-> ms]
NoObj == [alloc |-> FALSE, messages |-> <<>>]

Front(s) == SubSeq(s, 1, Len(s) - 1)

Entered(h, ref, ms) ==
    [raise |-> FALSE, error |-> "", heap |-> h, conversation |-> ref, messages |-> ms]
EntryRaise(e, h, ref) ==
    [raise |-> TRUE, error |-> e, heap |-> h, conversation |-> ref, messages |-> <<>>]

\* the merge with a single newline between the two contents
merge_content_one_newline(s, u) == s \o <<"nl">> \o u

\* messages[0]["content"] + "\n\n" + messages[1]["content"]
merge_content(s, u) == s \o <<"nl", "nl">> \o u

\* the system branch, the deep copy being the object `copy`:
\* assert, merge into messages[1], messages[1:]
SystemMergeInto(h, ref, copy) ==
    LET h1 == [h EXCEPT ![copy] = Obj(h[ref].messages)]
        ms == h1[copy].messages
    IN  IF Len(ms) < 2 THEN EntryRaise("IndexError", h1, copy)
        ELSE IF ms[2].role # "user" THEN EntryRaise("AssertionError", h1, copy)
        ELSE IF ms[1].content.kind # "str" \/ ms[2].content.kind # "str"
             THEN EntryRaise("TypeError", h1, copy)
        ELSE LET merged == [ms EXCEPT ![2].content =
                                Str(merge_content(ms[1].content.text, ms[2].content.text))]
             IN  Entered([h1 EXCEPT ![copy] = Obj(merged)], copy, Tail(merged))

\* the merge without the deep copy: it writes into the object it was given
SystemMergeInPlace(h, ref) == SystemMergeInto(h, ref, ref)

\* conversation = copy.deepcopy(conversation): the merge works on a fresh object
SystemMerge(h, ref) == SystemMergeInto(h, ref, "rc_copy")

\* render_conversation up to the first add_tokens
Entry(h, ref) ==
    LET ms == h[ref].messages IN
    IF Len(ms) = 0 THEN EntryRaise("IndexError", h, ref)
    ELSE LET e == IF ms[1].role = "system" THEN SystemMerge(h, ref)
                  ELSE Entered(h, ref, ms)
         IN  IF e.raise THEN e
             ELSE IF Len(e.messages) < 1 THEN EntryRaise("AssertionError", e.heap, e.conversation)
             ELSE e

\* render_for_completion without messages.pop()
CompletionEntryNoPop(h, ref) ==
    LET copy == "rfc_copy"
        h1 == [h EXCEPT ![copy] = Obj(h[ref].messages)]
        ms == h1[copy].messages
    IN  IF Len(ms) = 0 THEN EntryRaise("IndexError", h1, copy)
        ELSE IF ms[Len(ms)].role # "assistant" THEN EntryRaise("AssertionError", h1, copy)
        ELSE Entered(h1, copy, <<>>)

\* render_for_completion without the assert on the last message's role
CompletionEntryNoAssert(h, ref) ==
    LET copy == "rfc_copy"
        h1 == [h EXCEPT ![copy] = Obj(h[ref].messages)]
        ms == h1[copy].messages
    IN  IF Len(ms) = 0 THEN EntryRaise("IndexError", h1, copy)
        ELSE Entered([h1 EXCEPT ![copy] = Obj(Front(ms))], copy, <<>>)

\* render_for_completion up to its call of render_conversation
CompletionEntry(h, ref) ==
    LET copy == "rfc_copy"
        h1 == [h EXCEPT ![copy] = Obj(h[ref].messages)]
        ms == h1[copy].messages
    IN  IF Len(ms) = 0 THEN EntryRaise("IndexError", h1, copy)
        ELSE IF ms[Len(ms)].role # "assistant" THEN EntryRaise("AssertionError", h1, copy)
        ELSE Entered([h1 EXCEPT ![copy] = Obj(Front(ms))], copy, <<>>)

\* ids.append(assistant_start)
CompletionAppend(rendered) == Append(rendered, encode_special("<|assistant_start|>"))

\* ids = ids[:max_tokens]; mask = mask[:max_tokens]
Truncated(buf, n) == [ids |-> PySliceTo(buf.ids, n), mask |-> PySliceTo(buf.mask, n)]

-----------------------------------------------------------------------------
(* Tokenizer instances and the cache of encode_special *)

SpecialNames == {SPECIAL_TOKENS[k] : k \in 1..Len(SPECIAL_TOKENS)}

\* an Encoding, as far as reserved tokens go: the names it knows
Encoding(names) == [special_tokens |-> names]

\* enc.encode_single_token(text) for a reserved name the encoding knows;
\* tiktoken's "<|endoftext|>" is the one reserved token of a pretrained encoding
SingleTokenId(text) ==
    IF text = "<|endoftext|>" THEN tokens_offset ELSE encode_special(text)

Knows(enc, text) == text \in enc.special_tokens

CacheMaxSize == 32

Key(t, text) == [self |-> t, text |-> text]
Entry3(t, text, id) == [self |-> t, text |-> text, id |-> id]
KeyOf(e) == Key(e.self, e.text)
Keys(c) == {KeyOf(c[k]) : k \in 1..Len(c)}

Without(c, k) == SubSeq(c, 1, k - 1) \o SubSeq(c, k + 1, Len(c))

Resolved(id, c) == [raise |-> FALSE, id |-> id, cache |-> c]
Unresolved(c) == [raise |-> TRUE, id |-> 0, cache |-> c]

\* the cache with no size limit: lru_cache(maxsize=None)
lru_insert_unbounded(c, e, maxsize) == Append(c, e)

\* a new entry goes in as most recently used; a full cache first drops its
\* least recently used entry
lru_insert(c, e, maxsize) ==
    IF Len(c) >= maxsize THEN Append(Tail(c), e) ELSE Append(c, e)

\* self.encode_special(text) under @lru_cache(maxsize=32), called on instance t:
\* a hit returns the stored id and makes the entry most recently used, a miss
\* asks the encoding, and stores the id unless the encoding raised
cached_encode_special(c, instances, t, text) ==
    LET hits == {k \in 1..Len(c) : KeyOf(c[k]) = Key(t, text)} IN
    IF hits # {}
    THEN LET k == CHOOSE k \in hits : TRUE
         IN  Resolved(c[k].id, Append(Without(c, k), c[k]))
    ELSE IF ~Knows(instances[t].enc, text) THEN Unresolved(c)
    ELSE Resolved(SingleTokenId(text),
                  lru_insert(c, Entry3(t, text, SingleTokenId(text)), CacheMaxSize))

\* the same lookups one after another, up to the first that raises
RECURSIVE ResolveAll(_, _, _, _)
ResolveAll(c, instances, t, names) ==
    IF names = <<>> THEN Resolved(0, c)
    ELSE IF Key(t, Head(names)) \notin Keys(c) /\ ~Knows(instances[t].enc, Head(names))
         THEN Unresolved(c)
         ELSE CHOOSE res \in {ResolveAll(r.cache, instances, t, Tail(names)) :
                                r \in {cached_encode_special(c, instances, t, Head(names))}} : TRUE

\* the reserved tokens render_conversation fetches before it emits anything
RenderTokenNames == Tail(SPECIAL_TOKENS)

\* what a constructor hands to __init__: the encoding and the name of its BOS token
TrainedEncoding == Encoding(SpecialNames)
PretrainedEncoding == Encoding({"<|endoftext|>"})

\* encodings a tokenizer.pkl may hold
PickledEncodings ==
    {TrainedEncoding,
     Encoding(SpecialNames \ {"<|bos|>"}),
     Encoding(SpecialNames \ {"<|output_end|>"}),
     Encoding(SpecialNames \ {"<|assistant_start|>"}),
     PretrainedEncoding}

Constructors ==
    {[ctor |-> "train_from_iterator", enc |-> TrainedEncoding, bos_token |-> "<|bos|>"],
     [ctor |-> "from_pretrained", enc |-> PretrainedEncoding, bos_token |-> "<|endoftext|>"]}
    \cup {[ctor |-> "from_directory", enc |-> e, bos_token |-> "<|bos|>"] : e \in PickledEncodings}

Instance(k, id) == [ctor |-> k.ctor, enc |-> k.enc, bos_token_id |-> id]

\* cls(enc, bos_token): __init__ stores enc and resolves the BOS token, nothing else
Construction(c, instances, k) ==
    LET t == Len(instances) + 1
        r == cached_encode_special(c, Append(instances, Instance(k, 0)), t, k.bos_token)
    IN  IF r.raise THEN [raise |-> TRUE, encs |-> instances, cache |-> r.cache]
        ELSE [raise |-> FALSE, encs |-> Append(instances, Instance(k, r.id)), cache |-> r.cache]

\* the process after RustBPETokenizer.train_from_iterator built its one tokenizer
OneTrained == Construction(<<>>, <<>>, CHOOSE k \in Constructors : k.ctor = "train_from_iterator")

-----------------------------------------------------------------------------------------------------------------------------------------------------
(* encode(text, prepend=None, append=None, num_threads=8) *)

\* the values of prepend / append: None, an int, or a str naming a special token
NoneArg == [kind |-> "none", val |-> 0, name |-> ""]
IntArg(n) == [kind |-> "int", val |-> n, name |-> ""]
StrArg(s) == [kind |-> "str", val |-> 0, name |-> s]

Frame(text, prepend, append, num_threads) ==
    [text |-> text, prepend |-> prepend, append |-> append, num_threads |-> num_threads,
     prepend_id |-> 0, append_id |-> 0]

NoFrame == Frame(NoneContent, NoneArg, NoneArg, 8)

\* prepend if isinstance(prepend, int) else self.encode_special(prepend)
resolve(c, instances, t, p) ==
    IF p.kind = "int" THEN Resolved(p.val, c)
    ELSE cached_encode_special(c, instances, t, p.name)

\* ids_row.insert(0, prepend_id) placed at the end instead
insert_last(row, id) == Append(row, id)

\* ids.insert(0, prepend_id)
insert_first(row, id) == <<id>> \o row

\* the single-string branch
encode_str(text, prepend, prepend_id, append, append_id) ==
    LET ids0 == encode_ordinary(text)
        ids1 == IF prepend.kind # "none" THEN insert_first(ids0, prepend_id) ELSE ids0
    IN  IF append.kind # "none" THEN Append(ids1, append_id) ELSE ids1

\* self.enc.encode_ordinary_batch(text, num_threads): one row per text, in order
encode_ordinary_batch(texts, num_threads) ==
    [k \in 1..Len(texts) |-> encode_ordinary(texts[k])]

-----
(* The inputs *)

Limits == {0 - 1, 0, 1, MaxLimit, DefaultMaxTokens}

\* a leading-system / role-order alphabet with one representative per content shape
ToolParts == <<Part("python", <<"a">>), Part("python_output", <<"a">>)>>
BadParts == <<Part("text", <<"a">>), Part("image", <<"a">>)>>

Messages ==
    {Msg("system", Str(<<"nl">>)), Msg("system", NoneContent),
     Msg("user", Str(<<"a">>)), Msg("user", Str(<<"nl">>)),
     Msg("user", List(<<Part("text", <<"a">>)>>))}
    \cup {Msg("assistant", c) :
            c \in {Str(<<>>), Str(<<"a">>), List(ToolParts), List(BadParts), NoneContent}}

Conversations == SeqsUpTo(Messages, MaxMsgs)

\* part lists of every shape, inside one [user, assistant] exchange
Parts ==
    {Part(t, <<"a">>) : t \in {"text", "python", "python_output", "image"}}
    \cup {Part("text", <<>>)}

PartConversations ==
    {<<Msg("user", Str(<<"a">>)), Msg("assistant", List(ps))>> : ps \in SeqsUpTo(Parts, MaxParts)}

NoRet == [has |-> FALSE, ids |-> <<>>, mask |-> <<>>]

InitWith(convs) ==
    /\ \E c \in convs : heap = [o \in Objects |-> IF o = "caller" THEN Obj(c) ELSE NoObj]
    /\ \/ /\ op = "render_conversation"
          /\ max_tokens \in Limits
          /\ pc = "rc_entry"
       \/ /\ op = "render_for_completion"
          /\ max_tokens = DefaultMaxTokens
          /\ pc = "rfc_entry"
    /\ conversation = "caller"
    /\ messages = <<>>
    /\ i = 0
    /\ j = 1
    /\ pending = <<>>
    /\ ids = <<>>
    /\ mask = <<>>
    /\ status = "running"
    /\ error = ""
    /\ ret = NoRet
    /\ encs = OneTrained.encs
    /\ self = 1
    /\ cache = OneTrained.cache
    /\ frame = NoFrame

Init == InitWith(Conversations)
InitParts == InitWith(PartConversations)

-----------------------------------------------------------------------------
(* The steps *)

Raised(e) ==
    /\ status' = "raised"
    /\ error' = e
    /\ pc' = "done"

\* render_for_completion: deepcopy, assert, pop, call render_conversation(conversation)
RenderForCompletion ==
    /\ pc = "rfc_entry"
    /\ LET e == CompletionEntry(heap, conversation) IN
       /\ heap' = e.heap
       /\ conversation' = e.conversation
       /\ IF e.raise
          THEN Raised(e.error) /\ UNCHANGED max_tokens
          ELSE /\ pc' = "rc_entry"
               /\ max_tokens' = DefaultMaxTokens
               /\ UNCHANGED <<status, error>>
    /\ UNCHANGED <<op, messages, i, j, pending, ids, mask, ret>>
    /\ UNCHANGED <<encs, self, cache, frame>>

\* render_conversation from its first line to add_tokens(bos, 0), not yet run
RcEntry ==
    /\ pc = "rc_entry"
    /\ LET e == Entry(heap, conversation)
           r == ResolveAll(cache, encs, self, RenderTokenNames)
       IN
       /\ heap' = e.heap
       /\ conversation' = e.conversation
       /\ messages' = e.messages
       /\ IF e.raise
          THEN Raised(e.error) /\ UNCHANGED <<pending, cache>>
          ELSE IF r.raise
          THEN Raised("KeyError") /\ cache' = r.cache /\ UNCHANGED pending
          ELSE /\ pc' = "rc_loop"
               /\ pending' = BosCalls.calls
               /\ cache' = r.cache
               /\ UNCHANGED <<status, error>>
    /\ ids' = <<>>
    /\ mask' = <<>>
    /\ i' = 0
    /\ UNCHANGED <<op, max_tokens, j, ret, encs, self, frame>>

\* one call of add_tokens
AddTokens ==
    /\ status = "running"
    /\ pending # <<>>
    /\ LET c == Head(pending)
           buf == add_tokens([ids |-> ids, mask |-> mask], c.token_ids, c.mask_val)
       IN  ids' = buf.ids /\ mask' = buf.mask
    /\ pending' = Tail(pending)
    /\ UNCHANGED <<op, heap, conversation, messages, max_tokens, pc, i, j, status, error, ret>>
    /\ UNCHANGED <<encs, self, cache, frame>>

\* head of `for i, message in enumerate(messages)`: the role assert, then the
\* user branch or the assistant start marker
MessageHead ==
    /\ pc = "rc_loop"
    /\ pending = <<>>
    /\ i < Len(messages)
    /\ LET message == messages[i + 1] IN
       IF message["role"] # must_be_from(i)
       THEN Raised("AssertionError") /\ UNCHANGED <<pending, i, j>>
       ELSE IF message["role"] = "user"
       THEN LET u == UserCalls(message["content"]) IN
            IF u.raise
            THEN Raised(u.error) /\ UNCHANGED <<pending, i, j>>
            ELSE /\ pending' = u.calls
                 /\ i' = i + 1
                 /\ UNCHANGED <<pc, j, status, error>>
       ELSE /\ pending' = AssistantStartCalls.calls
            /\ pc' = "asst_content"
            /\ UNCHANGED <<i, j, status, error>>
    /\ UNCHANGED <<op, heap, conversation, messages, max_tokens, ids, mask, ret>>
    /\ UNCHANGED <<encs, self, cache, frame>>

\* the assistant's content: a string, a list of parts, or anything else
AssistantContent ==
    /\ pc = "asst_content"
    /\ pending = <<>>
    /\ LET content == messages[i + 1]["content"] IN
       IF content.kind = "str"
       THEN /\ pending' = AssistantTextCalls(content).calls \o AssistantEndCalls.calls
            /\ pc' = "rc_loop"
            /\ i' = i + 1
            /\ UNCHANGED <<j, status, error>>
       ELSE IF content.kind = "list"
       THEN /\ pc' = "asst_parts"
            /\ j' = 1
            /\ UNCHANGED <<pending, i, status, error>>
       ELSE Raised("ValueError") /\ UNCHANGED <<pending, i, j>>
    /\ UNCHANGED <<op, heap, conversation, messages, max_tokens, ids, mask, ret>>
    /\ UNCHANGED <<encs, self, cache, frame>>

\* `for part in content`: the next part, or past the last one add_tokens(assistant_end, 1)
PartHead ==
    /\ pc = "asst_parts"
    /\ pending = <<>>
    /\ LET content == messages[i + 1]["content"].parts IN
       IF j > Len(content)
       THEN /\ pending' = AssistantEndCalls.calls
            /\ pc' = "rc_loop"
            /\ i' = i + 1
            /\ j' = 1
            /\ UNCHANGED <<status, error>>
       ELSE LET p == PartCalls(content[j]) IN
            IF p.raise
            THEN Raised(p.error) /\ UNCHANGED <<pending, i, j>>
            ELSE /\ pending' = p.calls
                 /\ j' = j + 1
                 /\ UNCHANGED <<pc, i, status, error>>
    /\ UNCHANGED <<op, heap, conversation, messages, max_tokens, ids, mask, ret>>
    /\ UNCHANGED <<encs, self, cache, frame>>

\* after the loop: truncate and return ids, mask
Truncate ==
    /\ pc = "rc_loop"
    /\ pending = <<>>
    /\ i = Len(messages)
    /\ LET t == Truncated([ids |-> ids, mask |-> mask], max_tokens) IN
       /\ ids' = t.ids
       /\ mask' = t.mask
       /\ IF op = "render_conversation"
          THEN /\ ret' = [has |-> TRUE, ids |-> t.ids, mask |-> t.mask]
               /\ status' = "returned"
               /\ pc' = "done"
          ELSE /\ pc' = "rfc_append"
               /\ UNCHANGED <<ret, status>>
    /\ UNCHANGED <<op, heap, conversation, messages, max_tokens, i, j, pending, error>>
    /\ UNCHANGED <<encs, self, cache, frame>>

\* render_for_completion after the call: append assistant_start, return ids
RfcAppend ==
    /\ pc = "rfc_append"
    /\ ids' = CompletionAppend(ids)
    /\ ret' = [has |-> TRUE, ids |-> ids', mask |-> <<>>]
    /\ status' = "returned"
    /\ pc' = "done"
    /\ cache' = cached_encode_special(cache, encs, self, "<|assistant_start|>").cache
    /\ UNCHANGED <<op, heap, conversation, messages, max_tokens, i, j, pending, mask, error>>
    /\ UNCHANGED <<encs, self, frame>>

Next ==
    \/ RenderForCompletion
    \/ RcEntry
    \/ AddTokens
    \/ MessageHead
    \/ AssistantContent
    \/ PartHead
    \/ Truncate
    \/ RfcAppend

Spec == Init /\ [][Next]_vars
SpecParts == InitParts /\ [][Next]_vars

-----------------------------------------------------------------------------
(* The two methods as functions of their arguments *)

Outcome(st, e, xs, ms) == [status |-> st, error |-> e, ids |-> xs, mask |-> ms]

RECURSIVE RunCalls(_, _)
RunCalls(buf, calls) ==
    IF calls = <<>> THEN buf
    ELSE RunCalls(add_tokens(buf, Head(calls).token_ids, Head(calls).mask_val), Tail(calls))

RECURSIVE PartLoop(_, _)
PartLoop(content, k) ==
    IF k > Len(content) THEN Calls(<<>>)
    ELSE LET p == PartCalls(content[k]) IN
         IF p.raise THEN p
         ELSE LET rest == PartLoop(content, k + 1) IN
              IF rest.raise THEN rest ELSE Calls(p.calls \o rest.calls)

\* the body of the message loop for message number idx (0-based)
MessageCalls(message, idx) ==
    IF message["role"] # must_be_from(idx) THEN Raise("AssertionError")
    ELSE IF message["role"] = "user" THEN UserCalls(message["content"])
    ELSE LET content == message["content"]
             body == IF content.kind = "str" THEN AssistantTextCalls(content)
                     ELSE IF content.kind = "list" THEN PartLoop(content.parts, 1)
                     ELSE Raise("ValueError")
         IN  IF body.raise THEN body
             ELSE Calls(AssistantStartCalls.calls \o body.calls \o AssistantEndCalls.calls)

RECURSIVE MessageLoop(_, _)
MessageLoop(ms, idx) ==
    IF idx >= Len(ms) THEN Calls(<<>>)
    ELSE LET m == MessageCalls(ms[idx + 1], idx) IN
         IF m.raise THEN m
         ELSE LET rest == MessageLoop(ms, idx + 1) IN
              IF rest.raise THEN rest ELSE Calls(m.calls \o rest.calls)

\* the buffers just before truncation
NaturalRender(ms) ==
    LET e == Entry([o \in Objects |-> IF o = "caller" THEN Obj(ms) ELSE NoObj], "caller") IN
    IF e.raise THEN Outcome("raised", e.error, <<>>, <<>>)
    ELSE LET l == MessageLoop(e.messages, 0) IN
         IF l.raise THEN Outcome("raised", l.error, <<>>, <<>>)
         ELSE LET buf == RunCalls([ids |-> <<>>, mask |-> <<>>], BosCalls.calls \o l.calls)
              IN  Outcome("returned", "", buf.ids, buf.mask)

render_conversation(ms, n) ==
    LET r == NaturalRender(ms) IN
    IF r.status = "raised" THEN r
    ELSE LET t == Truncated([ids |-> r.ids, mask |-> r.mask], n)
         IN  Outcome("returned", "", t.ids, t.mask)

render_for_completion(ms) ==
    LET e == CompletionEntry([o \in Objects |-> IF o = "caller" THEN Obj(ms) ELSE NoObj], "caller") IN
    IF e.raise THEN Outcome("raised", e.error, <<>>, <<>>)
    ELSE LET r == render_conversation(e.heap[e.conversation].messages, DefaultMaxTokens) IN
         IF r.status = "raised" THEN r
         ELSE Outcome("returned", "", CompletionAppend(r.ids), <<>>)

\* what the caller got from the run
Got == Outcome(status, error, ret.ids, ret.mask)

\* the stepwise run and the functions agree
StepsAgree ==
    pc = "done" =>
        Got = IF op = "render_conversation"
              THEN render_conversation(heap["caller"].messages, max_tokens)
              ELSE render_for_completion(heap["caller"].messages)

-----------------------------------------------------------------------------
(* Reading a rendered sequence: every position belongs to the reserved       *)
(* token at it, or to the nearest reserved token before it                  *)

Special(name) == encode_special(name)

\* the nearest reserved token at or before position p (0 when there is none)
Marker(seq, p) ==
    LET qs == {q \in 1..p : IsSpecial(seq[q])} IN
    IF qs = {} THEN 0 ELSE seq[CHOOSE q \in qs : \A r \in qs : r <= q]

InToolOutput(seq, p) ==
    seq[p] = Special("<|output_end|>") \/ Marker(seq, p) = Special("<|output_start|>")

InToolCall(seq, p) ==
    seq[p] = Special("<|python_end|>") \/ Marker(seq, p) = Special("<|python_start|>")

InUserTurn(seq, p) ==
    seq[p] = Special("<|user_end|>") \/ Marker(seq, p) = Special("<|user_start|>")

IsAssistantText(seq, p) ==
    /\ ~IsSpecial(seq[p])
    /\ Marker(seq, p) \in {Special("<|assistant_start|>"), Special("<|python_end|>"),
                           Special("<|output_end|>")}

Count(seq, x) == Cardinality({p \in 1..Len(seq) : seq[p] = x})

CallerMessages == heap["caller"].messages
Roles(ms) == [k \in 1..Len(ms) |-> ms[k]["role"]]

\* the loop is over and nothing was cut yet: ids, mask are the natural render
BeforeTruncation == pc = "rc_loop" /\ pending = <<>> /\ i = Len(messages)

\* the frame of render_conversation is live, or its pair was just handed back
\* (render_for_completion's own append to ids comes after it)
InRenderConversation == ~(op = "render_for_completion" /\ status = "returned")

RenderReturned == op = "render_conversation" /\ status = "returned"

-----------------------------------------------------------------------------
(* Claims *)

\* C1: the ids and the mask have the same length and every mask value is 0 or 1,
\* after every add_tokens call and in the pair that is returned after truncation.
C1_AlignedBinaryMask ==
    /\ InRenderConversation => Len(ids) = Len(mask)
    /\ \A p \in 1..Len(mask) : mask[p] \in {0, 1}
    /\ RenderReturned =>
          /\ Len(ret.ids) = Len(ret.mask)
          /\ \A p \in 1..Len(ret.mask) : ret.mask[p] \in {0, 1}

\* C1 witness: a conversation of three messages was rendered and returned, cut
\* to exactly MaxLimit positions.
C1_Witness ==
    /\ RenderReturned
    /\ max_tokens = MaxLimit
    /\ Len(ret.ids) = MaxLimit
    /\ Len(CallerMessages) >= 3

\* C2: every position of a tool output (start marker, text, end marker) has mask 0
\* and every position of a tool call (start marker, text, end marker) has mask 1,
\* whatever parts surround it; every such part of the input is in the natural render.
C2_ToolMasks ==
    /\ \A p \in 1..Len(ids) :
          p <= Len(mask) =>
             /\ InToolOutput(ids, p) => mask[p] = 0
             /\ InToolCall(ids, p) => mask[p] = 1
    /\ (op = "render_conversation" /\ BeforeTruncation) =>
          LET ps == CallerMessages[2]["content"].parts IN
          /\ Count(ids, Special("<|output_start|>"))
                = Cardinality({k \in 1..Len(ps) : ps[k].type = "python_output"})
          /\ Count(ids, Special("<|output_end|>")) = Count(ids, Special("<|output_start|>"))
          /\ Count(ids, Special("<|python_start|>"))
                = Cardinality({k \in 1..Len(ps) : ps[k].type = "python"})
          /\ Count(ids, Special("<|python_end|>")) = Count(ids, Special("<|python_start|>"))

\* C2 witness: a natural render with a tool output between a tool call and a text.
C2_Witness ==
    /\ op = "render_conversation"
    /\ BeforeTruncation
    /\ \E p \in 2..(Len(ids) - 4) :
          /\ ids[p - 1] = Special("<|python_end|>")
          /\ ids[p] = Special("<|output_start|>")
          /\ ~IsSpecial(ids[p + 1])
          /\ ids[p + 2] = Special("<|output_end|>")
          /\ ~IsSpecial(ids[p + 3])
          /\ mask[p + 3] = 1

\* C3: user turns and the assistant start marker have mask 0, assistant text and
\* the assistant end marker have mask 1; the natural render of [user, assistant]
\* has a 0 and a 1 in its mask.
C3_TurnMasks ==
    /\ \A p \in 1..Len(ids) :
          p <= Len(mask) =>
             /\ InUserTurn(ids, p) => mask[p] = 0
             /\ ids[p] = Special("<|assistant_start|>") => mask[p] = 0
             /\ IsAssistantText(ids, p) => mask[p] = 1
             /\ ids[p] = Special("<|assistant_end|>") => mask[p] = 1
    /\ (BeforeTruncation /\ op = "render_conversation"
            /\ Roles(CallerMessages) = <<"user", "assistant">>) =>
          /\ \E p \in 1..Len(mask) : mask[p] = 0
          /\ \E p \in 1..Len(mask) : mask[p] = 1

\* C3 witness: the natural render of [user, assistant] whose assistant text is empty.
C3_Witness ==
    /\ BeforeTruncation
    /\ op = "render_conversation"
    /\ Roles(CallerMessages) = <<"user", "assistant">>
    /\ CallerMessages[2]["content"] = Str(<<>>)

\* C4: a render returned under a bound of at least 1 is not empty and starts with
\* the BOS token with mask 0; the buffers start with it before any other token.
C4_BosFirst ==
    /\ ids # <<>> => ids[1] = get_bos_token_id
    /\ mask # <<>> => mask[1] = 0
    /\ (RenderReturned /\ max_tokens >= 1) =>
          /\ ret.ids # <<>>
          /\ ret.ids[1] = get_bos_token_id
          /\ ret.mask[1] = 0

\* C4 witness: a conversation with a merged system message, returned under bound 1.
C4_Witness ==
    /\ RenderReturned
    /\ max_tokens = 1
    /\ CallerMessages[1]["role"] = "system"
    /\ ret.ids = <<get_bos_token_id>>

\* C5: the returned ids and mask have the same length, at most max_tokens, and
\* when max_tokens is less than the natural length they are the first max_tokens
\* positions of the natural render.
C5_TruncationBound ==
    RenderReturned =>
        LET natural == NaturalRender(CallerMessages) IN
        /\ Len(ret.ids) = Len(ret.mask)
        /\ Len(ret.ids) <= max_tokens
        /\ max_tokens < Len(natural.ids) =>
              /\ ret.ids = PySliceTo(natural.ids, max_tokens)
              /\ ret.mask = PySliceTo(natural.mask, max_tokens)

\* the user message a leading system message S and the user message U merge into
MergedConversation(ms) ==
    <<Msg("user", Str(ms[1]["content"].text \o <<"nl", "nl">> \o ms[2]["content"].text))>>
        \o SubSeq(ms, 3, Len(ms))

LeadingSystemUser(ms) ==
    /\ Len(ms) >= 2
    /\ ms[1]["role"] = "system" /\ ms[1]["content"].kind = "str"
    /\ ms[2]["role"] = "user" /\ ms[2]["content"].kind = "str"

\* C6: rendering [system S, user U, rest] gives what rendering
\* [user (S + two newlines + U), rest] gives under the same bound, pair or error.
C6_SystemMerge ==
    (op = "render_conversation" /\ pc = "done" /\ LeadingSystemUser(CallerMessages)) =>
        LET direct == render_conversation(MergedConversation(CallerMessages), max_tokens) IN
        /\ status = direct.status
        /\ ret.ids = direct.ids
        /\ ret.mask = direct.mask

\* C6 witness: [system, user, assistant] was rendered and returned under a bound
\* that cuts it.
C6_Witness ==
    /\ RenderReturned
    /\ LeadingSystemUser(CallerMessages)
    /\ Len(CallerMessages) = 3
    /\ max_tokens = MaxLimit
    /\ Len(ret.ids) > 3

AssistantMessages == {m \in Messages : m["role"] = "assistant"}

EndsWithAssistant(ms) == Len(ms) >= 1 /\ ms[Len(ms)]["role"] = "assistant"

\* C7: for a conversation ending with an assistant message, render_for_completion
\* returns the ids render_conversation gives for the conversation without that
\* message, then one assistant start id; it fails when that render fails; and
\* the ids are the same whatever the removed assistant message was.
C7_Completion ==
    (op = "render_for_completion" /\ pc = "done" /\ EndsWithAssistant(CallerMessages)) =>
        LET rest == Front(CallerMessages)
            r == render_conversation(rest, DefaultMaxTokens)
        IN  /\ status = r.status
            /\ status = "returned" =>
                  /\ ret.ids = Append(r.ids, Special("<|assistant_start|>"))
                  /\ Count(ret.ids, Special("<|assistant_end|>"))
                        = Cardinality({k \in 1..Len(rest) : rest[k]["role"] = "assistant"})
                  /\ \A m \in AssistantMessages :
                        render_for_completion(Append(rest, m)).ids = ret.ids

\* C7 witness: a completion prompt was returned for a conversation whose removed
\* last message was a list of parts.
C7_Witness ==
    /\ op = "render_for_completion"
    /\ status = "returned"
    /\ Len(CallerMessages) >= 2
    /\ CallerMessages[Len(CallerMessages)]["content"].kind = "list"
    /\ ret.ids[Len(ret.ids)] = Special("<|assistant_start|>")

\* the conversation the message loop walks: without a leading system message
AfterMerge(ms) == IF ms # <<>> /\ ms[1]["role"] = "system" THEN Tail(ms) ELSE ms

Alternates(ms) ==
    /\ Len(ms) >= 1
    /\ \A k \in 1..Len(ms) :
          ms[k]["role"] = (IF k % 2 = 1 THEN "user" ELSE "assistant")

MisorderedRoles(ms) ==
    \/ ms # <<>> /\ ms[1]["role"] = "assistant"
    \/ \E k \in 1..(Len(ms) - 1) : ms[k]["role"] = ms[k + 1]["role"]
    \/ \E k \in 2..Len(ms) : ms[k]["role"] = "system"
    \/ ms # <<>> /\ ms[1]["role"] = "system" /\ (Len(ms) = 1 \/ ms[2]["role"] # "user")

\* C8: render_conversation returns only when, past a leading system message, the
\* roles are user, assistant, user, ...; a conversation that starts with assistant,
\* repeats a role, has a system message past the first place, or has a leading
\* system message with no user message after it ends in an error.
C8_RoleOrder ==
    op = "render_conversation" =>
        /\ status = "returned" => Alternates(AfterMerge(CallerMessages))
        /\ MisorderedRoles(CallerMessages) =>
              /\ status # "returned"
              /\ ~ret.has
              /\ pc = "done" => status = "raised"

\* C8 witness: a system message in the third place was refused after the two
\* turns before it went into the buffers.
C8_Witness ==
    /\ op = "render_conversation"
    /\ status = "raised"
    /\ Len(CallerMessages) = 3
    /\ Roles(CallerMessages) = <<"user", "assistant", "system">>
    /\ Len(ids) > 4

KnownPartTypes == {"text", "python", "python_output"}

Malformed(ms) ==
    \E k \in 1..Len(ms) :
        LET c == ms[k]["content"] IN
        \/ /\ ms[k]["role"] = "assistant"
           /\ \/ c.kind \notin {"str", "list"}
              \/ c.kind = "list" /\ \E q \in 1..Len(c.parts) : c.parts[q].type \notin KnownPartTypes
        \/ ms[k]["role"] = "user" /\ c.kind # "str"

\* C9: a conversation with an unknown part type, an assistant content that is
\* neither string nor list, or a user content that is not a string never gets a
\* pair back from render_conversation: the call ends in an error, wherever the
\* item lies and whatever the bound.
C9_MalformedFatal ==
    (op = "render_conversation" /\ Malformed(CallerMessages)) =>
        /\ status # "returned"
        /\ ~ret.has
        /\ pc = "done" => status = "raised"

\* C9 witness: an unknown part type in the last message raised after more tokens
\* than the bound keeps were in the buffers.
C9_Witness ==
    /\ op = "render_conversation"
    /\ status = "raised"
    /\ error = "ValueError"
    /\ max_tokens = 1
    /\ Len(ids) > 5
    /\ Alternates(CallerMessages)

\* C10: no step of either method changes the caller's conversation.
C10_CallerUnchanged == [][heap'["caller"] = heap["caller"]]_vars

\* C10 witness: render_for_completion returned after both deep copies were made
\* and changed: the last message popped from one, the system message merged in
\* the other.
C10_Witness ==
    /\ op = "render_for_completion"
    /\ status = "returned"
    /\ heap["rfc_copy"].alloc
    /\ heap["rc_copy"].alloc
    /\ heap["rfc_copy"].messages # CallerMessages
    /\ heap["rc_copy"].messages # heap["rfc_copy"].messages

\* C11: render_for_completion ends in an error, with no ids returned, when the
\* last message is not from the assistant, when the conversation is [assistant]
\* alone, and when it is [system, assistant].
C11_CompletionRejects ==
    (/\ op = "render_for_completion"
     /\ \/ ~EndsWithAssistant(CallerMessages)
        \/ Roles(CallerMessages) = <<"assistant">>
        \/ Roles(CallerMessages) = <<"system", "assistant">>) =>
        /\ status # "returned"
        /\ ~ret.has
        /\ pc = "done" => status = "raised"

\* C11 witness: [system, assistant] got past the assert and the pop, and the
\* render of the remaining system message raised.
C11_Witness ==
    /\ op = "render_for_completion"
    /\ Roles(CallerMessages) = <<"system", "assistant">>
    /\ status = "raised"
    /\ error = "IndexError"
    /\ heap["rc_copy"].alloc

IsPrefix(a, b) == Len(a) <= Len(b) /\ a = SubSeq(b, 1, Len(a))

\* positions of the assistant start marker
StartsAt(seq) == {p \in 1..Len(seq) : seq[p] = Special("<|assistant_start|>")}

\* the prompt is the training render up to its last assistant start marker,
\* which is not trained on
PromptMatchesTraining(ms, prompt) ==
    LET full == render_conversation(ms, DefaultMaxTokens) IN
    (full.status = "returned" /\ EndsWithAssistant(ms)) =>
        /\ status = "returned"
        /\ IsPrefix(prompt, full.ids)
        /\ StartsAt(full.ids) # {}
        /\ \A p \in StartsAt(full.ids) : p <= Len(prompt)
        /\ prompt[Len(prompt)] = Special("<|assistant_start|>")
        /\ full.mask[Len(prompt)] = 0

\* the first k messages render
PrefixRenders(ms, k) == NaturalRender(SubSeq(ms, 1, k)).status = "returned"

RenderIsPrefix(ms, k) == IsPrefix(NaturalRender(SubSeq(ms, 1, k)).ids, NaturalRender(ms).ids)
                         /\ IsPrefix(NaturalRender(SubSeq(ms, 1, k)).mask, NaturalRender(ms).mask)

\* C15 as stated: the prompt of a valid conversation ending in an assistant
\* message is the training render up to the last assistant start marker, mask 0
\* there; and for every k the first k messages render to a prefix of the whole
\* natural render.
C15_PrefixEveryK ==
    pc = "done" =>
        /\ op = "render_for_completion" => PromptMatchesTraining(CallerMessages, ret.ids)
        /\ (op = "render_conversation" /\ status = "returned") =>
              \A k \in 1..Len(CallerMessages) :
                  PrefixRenders(CallerMessages, k) /\ RenderIsPrefix(CallerMessages, k)

\* C15 amended: the same, for every k whose first k messages render at all
\* (all k >= 1 but k = 1 of a conversation that leads with a system message).
C15_PromptTrainingConsistency ==
    pc = "done" =>
        /\ op = "render_for_completion" => PromptMatchesTraining(CallerMessages, ret.ids)
        /\ (op = "render_conversation" /\ status = "returned") =>
              \A k \in 1..Len(CallerMessages) :
                  /\ PrefixRenders(CallerMessages, k)
                        <=> ~(k = 1 /\ CallerMessages[1]["role"] = "system")
                  /\ PrefixRenders(CallerMessages, k) => RenderIsPrefix(CallerMessages, k)

\* C15 witness: the prompt of [system, user, assistant] was returned, the
\* removed assistant message holding text.
C15_Witness ==
    /\ op = "render_for_completion"
    /\ status = "returned"
    /\ Roles(CallerMessages) = <<"system", "user", "assistant">>
    /\ CallerMessages[3]["content"] = Str(<<"a">>)
    /\ Len(ret.ids) < Len(render_conversation(CallerMessages, DefaultMaxTokens).ids)

-----------------------------------------------------------------------------
(* A process that builds tokenizers and calls them: what the shared cache sees *)

CacheConstructors == {k \in Constructors : k.ctor \in {"train_from_iterator", "from_pretrained"}}

Idle ==
    /\ op = "none"
    /\ heap = [o \in Objects |-> NoObj]
    /\ conversation = "caller"
    /\ messages = <<>>
    /\ max_tokens = DefaultMaxTokens
    /\ i = 0
    /\ j = 1
    /\ pending = <<>>
    /\ ids = <<>>
    /\ mask = <<>>
    /\ status = "running"
    /\ error = ""
    /\ ret = NoRet
    /\ self = 1
    /\ frame = NoFrame

InitCache ==
    /\ Idle
    /\ pc = "process"
    /\ encs = <<>>
    /\ cache = <<>>

CallFrame == <<op, heap, conversation, messages, max_tokens, pc, i, j, pending,
               ids, mask, status, error, ret, self, frame>>

\* one more tokenizer is built (or its constructor raises)
NewTokenizer ==
    /\ pc = "process"
    /\ Len(encs) < MaxTokenizers
    /\ \E k \in CacheConstructors :
          LET c == Construction(cache, encs, k) IN
          /\ encs' = c.encs
          /\ cache' = c.cache
    /\ UNCHANGED CallFrame

\* tokenizer t renders a conversation: the lookups of render_conversation
RenderLookups ==
    /\ pc = "process"
    /\ \E t \in 1..Len(encs) :
          cache' = ResolveAll(cache, encs, t, RenderTokenNames).cache
    /\ UNCHANGED <<CallFrame, encs>>

NextCache ==
    \/ NewTokenizer
    \/ RenderLookups

SpecCache == InitCache /\ [][NextCache]_vars

\* every entry holds the id its tokenizer's encoding gives its name, no key is
\* held twice, and there are at most CacheMaxSize entries
CacheSound ==
    /\ Len(cache) <= CacheMaxSize
    /\ \A a, b \in 1..Len(cache) : KeyOf(cache[a]) = KeyOf(cache[b]) => a = b
    /\ \A a \in 1..Len(cache) :
          /\ cache[a].self \in 1..Len(encs)
          /\ Knows(encs[cache[a].self].enc, cache[a].text)
          /\ cache[a].id = SingleTokenId(cache[a].text)

\* C13 as stated: an entry once in the cache stays in it, unchanged.
C13_AppendOnly ==
    [][\A a \in 1..Len(cache) : \E b \in 1..Len(cache') : cache'[b] = cache[a]]_vars

\* C13 amended: the cache holds at most 32 entries, each the id the encoding
\* gives; an entry is never overwritten with another id, and one is dropped
\* only by a step that leaves the cache full.
C13_BoundedLru ==
    /\ []CacheSound
    /\ [][\A a \in 1..Len(cache) :
             \/ \E b \in 1..Len(cache') : cache'[b] = cache[a]
             \/ /\ KeyOf(cache[a]) \notin Keys(cache')
                /\ Len(cache') = CacheMaxSize]_vars

\* C13 witness: the cache is full and the entry a constructor wrote for its BOS
\* token is gone from it.
C13_Witness ==
    /\ pc = "process"
    /\ Len(cache) = CacheMaxSize
    /\ \E t \in 1..Len(encs) :
          /\ encs[t].ctor = "train_from_iterator"
          /\ Key(t, "<|bos|>") \notin Keys(cache)

-----------------------------------------------------------------------------
(* A tokenizer is built by one of the three constructors, then called once *)

ConstructConversations ==
    {<<Msg("user", Str(<<"a">>))>>,
     <<Msg("user", Str(<<"a">>)), Msg("assistant", List(ToolParts))>>,
     <<Msg("system", Str(<<"nl">>)), Msg("user", Str(<<"a">>)), Msg("assistant", Str(<<"a">>))>>}

InitConstruct ==
    /\ \E c \in ConstructConversations :
          heap = [o \in Objects |-> IF o = "caller" THEN Obj(c) ELSE NoObj]
    /\ op \in {"render_conversation", "render_for_completion"}
    /\ max_tokens = DefaultMaxTokens
    /\ pc = "construct"
    /\ conversation = "caller"
    /\ messages = <<>>
    /\ i = 0
    /\ j = 1
    /\ pending = <<>>
    /\ ids = <<>>
    /\ mask = <<>>
    /\ status = "running"
    /\ error = ""
    /\ ret = NoRet
    /\ encs = <<>>
    /\ self = 1
    /\ cache = <<>>
    /\ frame = NoFrame

\* train_from_iterator / from_directory / from_pretrained: cls(enc, bos_token),
\* then the caller's method call on the new tokenizer
Construct ==
    /\ pc = "construct"
    /\ \E k \in Constructors :
          LET c == Construction(cache, encs, k) IN
          /\ encs' = c.encs
          /\ cache' = c.cache
          /\ IF c.raise
             THEN Raised("KeyError")
             ELSE /\ pc' = IF op = "render_conversation" THEN "rc_entry" ELSE "rfc_entry"
                  /\ UNCHANGED <<status, error>>
    /\ UNCHANGED <<op, heap, conversation, messages, max_tokens, i, j, pending, ids, mask,
                   ret, self, frame>>

NextConstruct ==
    \/ Construct
    \/ Next

SpecConstruct == InitConstruct /\ [][NextConstruct]_vars

Complete(enc) == SpecialNames \subseteq enc.special_tokens

DistinctIds(names) == \A a, b \in names : SingleTokenId(a) = SingleTokenId(b) => a = b

\* the BOS token name each constructor passes to __init__
BosTokenOf(ctor) == IF ctor = "from_pretrained" THEN "<|endoftext|>" ELSE "<|bos|>"

\* the call's own preconditions on the conversation hold (line 328)
CallAccepted ==
    op = "render_for_completion" =>
        heap["caller"].messages[Len(heap["caller"].messages)].role = "assistant"

\* C14 as stated: a tokenizer that was constructed knows all nine reserved names
\* under distinct ids, so that no render fails on a reserved name.
C14_RejectedAtConstruction ==
    /\ \A t \in 1..Len(encs) : Complete(encs[t].enc) /\ DistinctIds(SpecialNames)
    /\ ~(encs # <<>> /\ status = "raised" /\ error = "KeyError")

\* What the constructors do check: train_from_iterator gives the nine names
\* distinct ids; a constructor resolves the BOS token name only and fails
\* without it; a tokenizer missing another reserved name is constructed, and
\* its first render fails before any token is emitted, with a KeyError when
\* the conversation is one the call accepts.
ConstructionChecksBosOnly ==
    /\ \A t \in 1..Len(encs) :
          /\ encs[t].ctor = "train_from_iterator" =>
                Complete(encs[t].enc) /\ DistinctIds(SpecialNames)
          /\ Knows(encs[t].enc, BosTokenOf(encs[t].ctor))
          /\ encs[t].bos_token_id = SingleTokenId(BosTokenOf(encs[t].ctor))
    /\ (pc # "construct" /\ encs = <<>>) =>
          status = "raised" /\ error = "KeyError" /\ ids = <<>> /\ ~ret.has
    /\ (encs # <<>> /\ ~(\A n \in 1..Len(RenderTokenNames) :
                            Knows(encs[self].enc, RenderTokenNames[n]))) =>
          /\ ids = <<>>
          /\ ~ret.has
          /\ pc = "done" => status = "raised"
          /\ (pc = "done" /\ CallAccepted) => error = "KeyError"
    /\ (encs # <<>> /\ Complete(encs[self].enc) /\ pc = "done" /\ CallAccepted) =>
          status = "returned"

-----------------------------------------------------------------------------
(* One call of encode on a trained tokenizer *)

MaxText == 2
MaxBatch == 2

Texts == SeqsUpTo({"a", "nl"}, MaxText)

TextArgs ==
    {Str(t) : t \in Texts} \cup {List(ts) : ts \in SeqsUpTo(Texts, MaxBatch)}
        \cup {NoneContent}

PrependArgs ==
    {NoneArg, IntArg(get_bos_token_id), StrArg("<|bos|>"), StrArg("<|nope|>")}

AppendArgs ==
    {NoneArg, IntArg(encode_special("<|assistant_end|>")), StrArg("<|assistant_end|>"),
     StrArg("<|nope|>")}

InitEncode ==
    /\ Idle
    /\ pc = "encode"
    /\ encs = OneTrained.encs
    /\ cache = OneTrained.cache

EncodeFrame == <<op, heap, conversation, messages, max_tokens, j, pending, mask, ret,
                 encs, self>>

\* the caller's call
EncodeCall ==
    /\ pc = "encode"
    /\ op = "none"
    /\ op' = "encode"
    /\ pc' = "enc_entry"
    /\ \E text \in TextArgs, prepend \in PrependArgs, append \in AppendArgs,
          num_threads \in {1, 8} :
          frame' = Frame(text, prepend, append, num_threads)
    /\ UNCHANGED <<heap, conversation, messages, max_tokens, i, j, pending, ids, mask,
                   status, error, ret, encs, self, cache>>

\* prepend and append are resolved, then the type of text picks the branch
EncodeEntry ==
    /\ pc = "enc_entry"
    /\ LET p == IF frame.prepend.kind = "none" THEN Resolved(0, cache)
                ELSE resolve(cache, encs, self, frame.prepend)
           a == IF frame.append.kind = "none" THEN Resolved(0, p.cache)
                ELSE resolve(p.cache, encs, self, frame.append)
       IN  IF p.raise
           THEN Raised("KeyError") /\ cache' = p.cache /\ UNCHANGED <<frame, ids, i>>
           ELSE IF a.raise
           THEN Raised("KeyError") /\ cache' = a.cache /\ UNCHANGED <<frame, ids, i>>
           ELSE /\ cache' = a.cache
                /\ frame' = [frame EXCEPT !.prepend_id = p.id, !.append_id = a.id]
                /\ IF frame.text.kind = "str"
                   THEN /\ ids' = encode_str(frame.text.text, frame.prepend, p.id,
                                             frame.append, a.id)
                        /\ pc' = "enc_return"
                        /\ UNCHANGED <<i, status, error>>
                   ELSE IF frame.text.kind = "list"
                   THEN /\ ids' = encode_ordinary_batch(frame.text.parts, frame.num_threads)
                        /\ pc' = "enc_prepend"
                        /\ i' = 1
                        /\ UNCHANGED <<status, error>>
                   ELSE Raised("ValueError") /\ UNCHANGED <<ids, i>>
    /\ UNCHANGED EncodeFrame

\* for ids_row in ids: ids_row.insert(0, prepend_id)
PrependRow ==
    /\ pc = "enc_prepend"
    /\ IF frame.prepend.kind # "none" /\ i <= Len(ids)
       THEN /\ ids' = [ids EXCEPT ![i] = insert_first(@, frame.prepend_id)]
            /\ i' = i + 1
            /\ UNCHANGED pc
       ELSE /\ pc' = "enc_append"
            /\ i' = 1
            /\ UNCHANGED ids
    /\ UNCHANGED <<EncodeFrame, status, error, cache, frame>>

\* for ids_row in ids: ids_row.append(append_id)
AppendRow ==
    /\ pc = "enc_append"
    /\ IF frame.append.kind # "none" /\ i <= Len(ids)
       THEN /\ ids' = [ids EXCEPT ![i] = Append(@, frame.append_id)]
            /\ i' = i + 1
            /\ UNCHANGED pc
       ELSE /\ pc' = "enc_return"
            /\ UNCHANGED <<ids, i>>
    /\ UNCHANGED <<EncodeFrame, status, error, cache, frame>>

\* return ids
EncodeReturn ==
    /\ pc = "enc_return"
    /\ pc' = "done"
    /\ status' = "returned"
    /\ UNCHANGED <<EncodeFrame, i, ids, error, cache, frame>>

NextEncode ==
    \/ EncodeCall
    \/ EncodeEntry
    \/ PrependRow
    \/ AppendRow
    \/ EncodeReturn

SpecEncode == InitEncode /\ [][NextEncode]_vars

\* the id an argument stands for: the int itself, or the id of the named token
IdOf(p) == IF p.kind = "int" THEN p.val ELSE encode_special(p.name)

\* prepend id, ordinary tokens of the text, append id
Framed(text, prepend, append) ==
    (IF prepend.kind # "none" THEN <<IdOf(prepend)>> ELSE <<>>)
        \o encode_ordinary(text)
        \o (IF append.kind # "none" THEN <<IdOf(append)>> ELSE <<>>)

EncodeReturned == op = "encode" /\ pc = "done" /\ status = "returned"

\* C12: encode of a list of texts returns one row per text, in order, and row
\* k is what encode returns for texts[k] alone with the same prepend and
\* append: the ordinary tokens of that text with the prepend id in front and
\* the append id at the end when given, where a reserved name stands for the
\* same id as the integer; num_threads does not matter.
C12_BatchEncode ==
    /\ (EncodeReturned /\ frame.text.kind = "list") =>
          /\ Len(ids) = Len(frame.text.parts)
          /\ \A k \in 1..Len(ids) :
                /\ ids[k] = encode_str(frame.text.parts[k], frame.prepend, frame.prepend_id,
                                       frame.append, frame.append_id)
                /\ ids[k] = Framed(frame.text.parts[k], frame.prepend, frame.append)
    /\ (EncodeReturned /\ frame.text.kind = "str") =>
          ids = Framed(frame.text.text, frame.prepend, frame.append)
    /\ (op = "encode" /\ pc = "done" /\ status = "raised") =>
          \/ error = "KeyError" /\ StrArg("<|nope|>") \in {frame.prepend, frame.append}
          \/ error = "ValueError" /\ frame.text.kind = "none"

\* C12 witness: a batch of two different texts, one of them a merged pair of
\* newlines, was encoded with a prepend given by name and an append given as int.
C12_Witness ==
    /\ EncodeReturned
    /\ frame.text = List(<< <<"nl", "nl">>, <<"a">> >>)
    /\ frame.prepend = StrArg("<|bos|>")
    /\ frame.append = IntArg(encode_special("<|assistant_end|>"))
    /\ ids = << <<get_bos_token_id, Rank(<<"nl", "nl">>), encode_special("<|assistant_end|>")>>,
                <<get_bos_token_id, Rank(<<"a">>), encode_special("<|assistant_end|>")>> >>

====
